---- MODULE Spec2Model ----
(***************************************************************************)
(* Model of t5/models/mtf_model.py: the MtfModel facade.                   *)
(*                                                                         *)
(* The constructor normalises its arguments, resolves the batch size,      *)
(* builds one estimator and stores the configuration on self.  train,      *)
(* eval and predict each delegate once to an external routine of           *)
(* mesh_tensorflow.transformer.utils.  predict binds two gin parameters    *)
(* inside `with gin.unlock_config(), gin.config_scope("decode")`.          *)
(*                                                                         *)
(* Python values are encoded as records with a tag so that values of       *)
(* different Python types stay comparable: a dict is a set of <<key,       *)
(* value>> pairs, None has tag "none".                                     *)
(***************************************************************************)
EXTENDS Integers, Sequences, FiniteSets, TLC

VARIABLES
    args,            \* the keyword arguments given to __init__
    self,            \* the attributes of the MtfModel instance
    gin,             \* gin's process-wide configuration
    gin_before,      \* gin's configuration when the running call was entered
    pc,              \* "new", "idle", or the external routine being run
    verb,            \* the facade method of the current / last call
    call,            \* arguments of the current / last facade call
    sizing_calls,    \* calls made to utils.compute_batch_size
    spv_calls,       \* number of SentencePieceVocabulary() instantiations
    estimator_calls, \* keyword arguments of each utils.get_estimator call
    ext_calls,       \* external routine invocations made by the current call
    dataset_fn_calls,\* invocations of the dataset function in the current call
    datasets_built,  \* datasets constructed in the current call
    steps_run,       \* training steps run in the current call
    raised,          \* the error raised by the external routine
    outcome          \* what the caller of the facade method observed

vars == <<args, self, gin, gin_before, pc, verb, call, sizing_calls,
          spv_calls, estimator_calls, ext_calls, dataset_fn_calls,
          datasets_built, steps_run, raised, outcome>>

-----------------------------------------------------------------------------
(* Bounds of the model *)

MaxSeqLen == 1
MaxBatch == 1
MaxSteps == 1
MaxBeam == 2

-----------------------------------------------------------------------------
(* Python values *)

None == [tag |-> "none", n |-> 0, d |-> {}]
PyInt(i) == [tag |-> "int", n |-> i, d |-> {}]
PyDict(pairs) == [tag |-> "dict", n |-> 0, d |-> pairs]

\* isinstance(x, int)
IsInt(x) == x.tag = "int"

\* Python truth value of None, an int or a dict, as used by `x or default`
Truthy(x) ==
    CASE x.tag = "none" -> FALSE
      [] x.tag = "int"  -> x.n # 0
      [] x.tag = "dict" -> x.d # {}

FeatureKeys == {"inputs", "targets"}

\* dicts from feature key to integer: every single-valued set of pairs over
\* the two usual keys, and one dict that has neither of them
Dicts ==
    { p \in SUBSET (FeatureKeys \X (1..MaxSeqLen)) :
        \A x \in p, y \in p : x[1] = y[1] => x[2] = y[2] }
      \cup { {<<"extra", MaxSeqLen>>} }

SequenceLengths ==
    {None} \cup { PyInt(i) : i \in 0..MaxSeqLen } \cup { PyDict(p) : p \in Dicts }

\* batch_size: an integer or a (method, value) pair
BatchInt(b) == [tag |-> "int", n |-> b, method |-> ""]
BatchPair(m, v) == [tag |-> "pair", n |-> v, method |-> m]

Methods == {"tokens_per_batch", "sequences_per_batch"}

BatchSizes ==
    { BatchInt(b) : b \in 0..MaxBatch }
      \cup { BatchPair(m, MaxBatch) : m \in Methods }

\* values utils.compute_batch_size may return
SizingResults == {MaxBatch, MaxBatch + 1}

\* vocabulary: None, one Vocabulary, or an (inputs, targets) tuple
NoVocabulary == [tag |-> "none", inputs |-> "", targets |-> ""]
OneVocabulary(v) == [tag |-> "single", inputs |-> v, targets |-> v]
VocabularyPair(i, t) == [tag |-> "pair", inputs |-> i, targets |-> t]

Vocabularies ==
    {NoVocabulary, OneVocabulary("vocab_a"), VocabularyPair("vocab_a", "vocab_b")}

\* the object SentencePieceVocabulary() returns
DefaultSPV == OneVocabulary("sentencepiece_default")

\* vocab_size property of each vocabulary object
VocabSize(v) ==
    CASE v = "vocab_a" -> 100
      [] v = "vocab_b" -> 200
      [] v = "sentencepiece_default" -> 32000
      [] OTHER -> 0

\* errors
NoError == [type |-> "none", msg |-> ""]
ValueError(name) == [type |-> "ValueError", msg |-> name]
ExternalError == [type |-> "ExternalError", msg |-> ""]

\* a gin parameter: bound to a value, or not bound at all
Unbound == [bound |-> FALSE, v |-> 0]
Bound(x) == [bound |-> TRUE, v |-> x]

BeamSizes == 1..MaxBeam
Temperatures == {0, 1}

\* the global TaskRegistry / MixtureRegistry and the names callers use
TaskRegistry == {"registered_task"}
Names == {"registered_task", "unregistered_name"}

\* checkpoint_step: None or an explicit step
CheckpointSteps == {None, PyInt(1)}

-----------------------------------------------------------------------------
(* __init__ *)

DefaultSeqLen == 512

\* utils.tpu_mesh_shape(tpu_topology, model_parallelism): an external
\* function, kept as the term of its two arguments
tpu_mesh_shape(tpu_topology, model_parallelism) ==
    [tpu_topology |-> tpu_topology, model_parallelism |-> model_parallelism]

\* a constructor that always installs the default vocabulary
DefaultVocabularyAlways(vocabulary) == DefaultSPV

\* vocabulary = vocabulary or SentencePieceVocabulary()
DefaultVocabulary(vocabulary) ==
    IF vocabulary.tag # "none" THEN vocabulary ELSE DefaultSPV

\* number of SentencePieceVocabulary() instantiations made by that line
SPVInstantiations(vocabulary) ==
    IF vocabulary.tag # "none" THEN 0 ELSE 1

\* sequence_length = sequence_length or {"inputs": 512, "targets": 512}
\* followed by the expansion of an integer into a dict
NormalizeSequenceLength(sequence_length) ==
    LET sl == IF Truthy(sequence_length)
              THEN sequence_length
              ELSE PyDict({<<"inputs", DefaultSeqLen>>, <<"targets", DefaultSeqLen>>})
    IN  IF IsInt(sl)
        THEN PyDict({<<"inputs", sl.n>>, <<"targets", sl.n>>})
        ELSE sl

\* a constructor that sizes the batch before normalising sequence_length
ComputeBatchSizeArgsRaw(a) ==
    [sequence_length |-> a.sequence_length,
     mesh_shape      |-> tpu_mesh_shape(a.tpu_topology, a.model_parallelism),
     layout_rules    |-> a.layout_rules,
     batch_size      |-> a.batch_size]

\* the arguments of utils.compute_batch_size(sequence_length, mesh_shape,
\* layout_rules, batch_size)
ComputeBatchSizeArgs(a) ==
    [sequence_length |-> NormalizeSequenceLength(a.sequence_length),
     mesh_shape      |-> tpu_mesh_shape(a.tpu_topology, a.model_parallelism),
     layout_rules    |-> a.layout_rules,
     batch_size      |-> a.batch_size]

\* the calls to utils.compute_batch_size made by __init__; r is what the
\* external function returns
SizingCalls(a, r) ==
    IF ~IsInt(a.batch_size)
    THEN << [args |-> ComputeBatchSizeArgs(a), result |-> r] >>
    ELSE << >>

\* a constructor that recomputes the batch size whatever it was given
ResolveBatchSizeAlways(batch_size, r) == r

\* self._batch_size
ResolveBatchSize(batch_size, r) ==
    IF ~IsInt(batch_size) THEN r ELSE batch_size.n

\* utils.inputs_vocabulary / utils.targets_vocabulary
inputs_vocabulary(vocabulary) == vocabulary.inputs
targets_vocabulary(vocabulary) == vocabulary.targets

\* keyword arguments of utils.get_estimator
GetEstimatorArgs(a, r) ==
    LET vocabulary == DefaultVocabulary(a.vocabulary) IN
    [model_type        |-> a.model_type,
     input_vocab_size  |-> VocabSize(inputs_vocabulary(vocabulary)),
     output_vocab_size |-> VocabSize(targets_vocabulary(vocabulary)),
     layout_rules      |-> a.layout_rules,
     mesh_shape        |-> tpu_mesh_shape(a.tpu_topology, a.model_parallelism),
     model_dir         |-> a.model_dir,
     batch_size        |-> ResolveBatchSize(a.batch_size, r),
     sequence_length   |-> NormalizeSequenceLength(a.sequence_length),
     ensemble_inputs   |-> a.ensemble_inputs]

\* the estimator object the k-th call of utils.get_estimator returns
Estimator(k) == [instance |-> k]

\* the attributes __init__ assigns
ConstructedSelf(a, r) ==
    [batch_size      |-> ResolveBatchSize(a.batch_size, r),
     sequence_length |-> NormalizeSequenceLength(a.sequence_length),
     vocabulary      |-> DefaultVocabulary(a.vocabulary),
     model_dir       |-> a.model_dir,
     init_checkpoint |-> a.init_checkpoint,
     model_type      |-> a.model_type,
     ensemble_inputs |-> a.ensemble_inputs,
     estimator       |-> Estimator(1)]

Unset == [batch_size |-> 0, sequence_length |-> None, vocabulary |-> NoVocabulary,
          model_dir |-> "", init_checkpoint |-> "", model_type |-> "",
          ensemble_inputs |-> 0, estimator |-> Estimator(0)]

ConstructorArgs ==
    [model_dir         : {"/model_dir"},
     tpu_topology      : {"2x2"},
     model_parallelism : {8},
     batch_size        : BatchSizes,
     sequence_length   : SequenceLengths,
     vocabulary        : Vocabularies,
     model_type        : {"bitransformer"},
     layout_rules      : {"batch:batch"},
     ensemble_inputs   : {2},
     init_checkpoint   : {""}]

NoCall == [name |-> "", steps |-> 0, checkpoint_step |-> None,
           beam_size |-> 0, temperature |-> 0, config_was_locked |-> FALSE]

GinStates ==
    [config_is_locked : BOOLEAN,
     scopes           : {<< >>},
     beam_size        : {Unbound} \cup { Bound(b) : b \in BeamSizes },
     temperature      : {Unbound} \cup { Bound(t) : t \in Temperatures }]

Init ==
    /\ args \in ConstructorArgs
    /\ gin \in GinStates
    /\ gin_before = gin
    /\ self = Unset
    /\ pc = "new"
    /\ verb = "none"
    /\ call = NoCall
    /\ sizing_calls = << >>
    /\ spv_calls = 0
    /\ estimator_calls = << >>
    /\ ext_calls = << >>
    /\ dataset_fn_calls = 0
    /\ datasets_built = 0
    /\ steps_run = 0
    /\ raised = NoError
    /\ outcome = NoError

\* MtfModel(...): the whole constructor; r is the value the external
\* utils.compute_batch_size returns when it is called
Construct(r) ==
    /\ pc = "new"
    /\ sizing_calls' = SizingCalls(args, r)
    /\ spv_calls' = SPVInstantiations(args.vocabulary)
    /\ estimator_calls' = << GetEstimatorArgs(args, r) >>
    /\ self' = ConstructedSelf(args, r)
    /\ pc' = "idle"
    /\ UNCHANGED <<args, gin, gin_before, verb, call, ext_calls,
                   dataset_fn_calls, datasets_built, steps_run, raised, outcome>>

-----------------------------------------------------------------------------
(* train, eval, predict *)

\* functools.partial(mesh_train_dataset_fn, mixture_or_task_name=...)
train_dataset_fn(mixture_or_task_name) ==
    [fn |-> "mesh_train_dataset_fn", mixture_or_task_name |-> mixture_or_task_name]

\* functools.partial(mesh_eval_dataset_fn, mixture_or_task_name=...)
eval_dataset_fn(mixture_or_task_name) ==
    [fn |-> "mesh_eval_dataset_fn", mixture_or_task_name |-> mixture_or_task_name]

NoDatasetFn == [fn |-> "", mixture_or_task_name |-> ""]

\* a train that builds itself a new estimator for the call
TrainModelArgsFresh(s, mixture_or_task_name, steps) ==
    [routine         |-> "train_model",
     estimator       |-> Estimator(s.estimator.instance + 1),
     vocabulary      |-> s.vocabulary,
     sequence_length |-> s.sequence_length,
     batch_size      |-> s.batch_size,
     dataset_fn      |-> [fn |-> "mesh_train_dataset_fn",
                          mixture_or_task_name |-> mixture_or_task_name],
     steps           |-> steps,
     ensemble_inputs |-> s.ensemble_inputs,
     model_type      |-> "",
     model_dir       |-> "",
     checkpoint_step |-> None]

\* utils.train_model(self._estimator, self._vocabulary, self._sequence_length,
\*                   self._batch_size, dataset_fn, steps, self._ensemble_inputs)
TrainModelArgs(s, mixture_or_task_name, steps) ==
    [routine         |-> "train_model",
     estimator       |-> s.estimator,
     vocabulary      |-> s.vocabulary,
     sequence_length |-> s.sequence_length,
     batch_size      |-> s.batch_size,
     dataset_fn      |-> train_dataset_fn(mixture_or_task_name),
     steps           |-> steps,
     ensemble_inputs |-> s.ensemble_inputs,
     model_type      |-> "",
     model_dir       |-> "",
     checkpoint_step |-> None]

\* utils.eval_model(self._estimator, self._vocabulary, self._sequence_length,
\*                  self._batch_size, split, self._model_dir, dataset_fn,
\*                  summary_dir, checkpoint_step)
EvalModelArgs(s, mixture_or_task_name, checkpoint_step) ==
    [routine         |-> "eval_model",
     estimator       |-> s.estimator,
     vocabulary      |-> s.vocabulary,
     sequence_length |-> s.sequence_length,
     batch_size      |-> s.batch_size,
     dataset_fn      |-> eval_dataset_fn(mixture_or_task_name),
     steps           |-> 0,
     ensemble_inputs |-> 0,
     model_type      |-> "",
     model_dir       |-> s.model_dir,
     checkpoint_step |-> checkpoint_step]

\* utils.infer_model(self._estimator, self._vocabulary, self._sequence_length,
\*                   self._batch_size, self._model_type, self._model_dir,
\*                   checkpoint_step, input_file, output_file)
InferModelArgs(s, checkpoint_step) ==
    [routine         |-> "infer_model",
     estimator       |-> s.estimator,
     vocabulary      |-> s.vocabulary,
     sequence_length |-> s.sequence_length,
     batch_size      |-> s.batch_size,
     dataset_fn      |-> NoDatasetFn,
     steps           |-> 0,
     ensemble_inputs |-> 0,
     model_type      |-> s.model_type,
     model_dir       |-> s.model_dir,
     checkpoint_step |-> checkpoint_step]

\* The dataset function looks its name up in the global registry before it
\* builds anything: an unregistered name is a ValueError naming it.
mesh_dataset_fn(mixture_or_task_name) ==
    IF mixture_or_task_name \in TaskRegistry
    THEN NoError
    ELSE ValueError(mixture_or_task_name)

\* a method that swallows what the external routine raised
PropagateSwallow(routine, err, calls) ==
    [pc |-> "idle", outcome |-> NoError, ext_calls |-> calls]

\* a method that calls the external routine once more after a failure
PropagateRetry(routine, err, calls) ==
    IF err # NoError /\ Len(calls) < 2
    THEN [pc |-> routine, outcome |-> NoError, ext_calls |-> Append(calls, calls[1])]
    ELSE [pc |-> "idle", outcome |-> err, ext_calls |-> calls]

\* None of the three methods catches anything or loops: what the external
\* routine raised (or NoError) is what the caller gets, and the call is over.
Propagate(routine, err, calls) ==
    [pc |-> "idle", outcome |-> err, ext_calls |-> calls]

\* with gin.unlock_config(), gin.config_scope("decode"):
\*   gin.bind_parameter("Bitransformer.decode.beam_size", beam_size)
\*   gin.bind_parameter("Bitransformer.decode.temperature", temperature)
\* unlock_config clears the lock, config_scope pushes the scope, and
\* bind_parameter writes the two bindings into the global configuration.
GinEnter(g, beam_size, temperature) ==
    [config_is_locked |-> FALSE,
     scopes           |-> Append(g.scopes, "decode"),
     beam_size        |-> Bound(beam_size),
     temperature      |-> Bound(temperature)]

\* Leaving the with block: config_scope pops its scope and unlock_config
\* puts the lock back as it was.  Nothing in predict unbinds or rebinds the
\* two parameters.
GinExit(g, config_was_locked) ==
    [g EXCEPT !.config_is_locked = config_was_locked,
              !.scopes = SubSeq(g.scopes, 1, Len(g.scopes) - 1)]

\* the part of a facade call common to the three methods: a fresh call frame
EnterCall(v, c, x) ==
    /\ pc = "idle"
    /\ verb' = v
    /\ call' = c
    /\ gin_before' = gin
    /\ ext_calls' = << x >>
    /\ dataset_fn_calls' = 0
    /\ datasets_built' = 0
    /\ steps_run' = 0
    /\ raised' = NoError
    /\ outcome' = NoError
    /\ pc' = x.routine
    /\ UNCHANGED <<args, self, sizing_calls, spv_calls, estimator_calls>>

\* MtfModel.train up to the call of utils.train_model
TrainCall(mixture_or_task_name, steps) ==
    /\ EnterCall("train",
                 [NoCall EXCEPT !.name = mixture_or_task_name, !.steps = steps],
                 TrainModelArgs(self, mixture_or_task_name, steps))
    /\ UNCHANGED gin

\* MtfModel.eval up to the call of utils.eval_model
EvalCall(mixture_or_task_name, checkpoint_step) ==
    /\ EnterCall("eval",
                 [NoCall EXCEPT !.name = mixture_or_task_name,
                                !.checkpoint_step = checkpoint_step],
                 EvalModelArgs(self, mixture_or_task_name, checkpoint_step))
    /\ UNCHANGED gin

\* MtfModel.predict up to the call of utils.infer_model
PredictCall(checkpoint_step, beam_size, temperature) ==
    /\ EnterCall("predict",
                 [NoCall EXCEPT !.checkpoint_step = checkpoint_step,
                                !.beam_size = beam_size,
                                !.temperature = temperature,
                                !.config_was_locked = gin.config_is_locked],
                 InferModelArgs(self, checkpoint_step))
    /\ gin' = GinEnter(gin, beam_size, temperature)

\* utils.train_model runs: it calls the dataset function first, then trains.
\* The routine is external: once it has its dataset it either completes the
\* requested steps or raises.
train_model ==
    /\ pc = "train_model"
    /\ LET x == ext_calls[Len(ext_calls)]
           e == mesh_dataset_fn(x.dataset_fn.mixture_or_task_name)
       IN  /\ dataset_fn_calls' = dataset_fn_calls + 1
           /\ \/ /\ e # NoError
                 /\ raised' = e
                 /\ UNCHANGED <<datasets_built, steps_run>>
              \/ /\ e = NoError
                 /\ datasets_built' = datasets_built + 1
                 /\ \/ raised' = NoError /\ steps_run' = x.steps
                    \/ raised' = ExternalError /\ UNCHANGED steps_run
    /\ pc' = "train_exit"
    /\ UNCHANGED <<args, self, gin, gin_before, verb, call, sizing_calls,
                   spv_calls, estimator_calls, ext_calls, outcome>>

\* utils.eval_model runs.  How long it waits for checkpoints is its own
\* business; when it ends, it has returned or raised.
eval_model ==
    /\ pc = "eval_model"
    /\ LET x == ext_calls[Len(ext_calls)]
           e == mesh_dataset_fn(x.dataset_fn.mixture_or_task_name)
       IN  /\ dataset_fn_calls' = dataset_fn_calls + 1
           /\ \/ /\ e # NoError
                 /\ raised' = e
                 /\ UNCHANGED datasets_built
              \/ /\ e = NoError
                 /\ datasets_built' = datasets_built + 1
                 /\ raised' \in {NoError, ExternalError}
    /\ pc' = "eval_exit"
    /\ UNCHANGED <<args, self, gin, gin_before, verb, call, sizing_calls,
                   spv_calls, estimator_calls, ext_calls, steps_run, outcome>>

\* utils.infer_model runs: decoding reads the two gin parameters, and the
\* routine returns or raises.
infer_model ==
    /\ pc = "infer_model"
    /\ raised' \in {NoError, ExternalError}
    /\ pc' = "predict_exit"
    /\ UNCHANGED <<args, self, gin, gin_before, verb, call, sizing_calls,
                   spv_calls, estimator_calls, ext_calls, dataset_fn_calls,
                   datasets_built, steps_run, outcome>>

\* the external routine is over: the method returns or raises to its caller
ExitCall(routine) ==
    LET p == Propagate(routine, raised, ext_calls) IN
    /\ pc' = p.pc
    /\ outcome' = p.outcome
    /\ ext_calls' = p.ext_calls
    /\ UNCHANGED <<args, self, gin_before, verb, call, sizing_calls, spv_calls,
                   estimator_calls, dataset_fn_calls, datasets_built,
                   steps_run, raised>>

TrainExit ==
    /\ pc = "train_exit"
    /\ ExitCall("train_model")
    /\ UNCHANGED gin

EvalExit ==
    /\ pc = "eval_exit"
    /\ ExitCall("eval_model")
    /\ UNCHANGED gin

\* leaving predict also leaves its with block
PredictExit ==
    /\ pc = "predict_exit"
    /\ ExitCall("infer_model")
    /\ gin' = GinExit(gin, call.config_was_locked)

Next ==
    \/ \E r \in SizingResults : Construct(r)
    \/ \E n \in Names, k \in 1..MaxSteps : TrainCall(n, k)
    \/ \E n \in Names, c \in CheckpointSteps : EvalCall(n, c)
    \/ \E c \in CheckpointSteps, b \in BeamSizes, t \in Temperatures :
          PredictCall(c, b, t)
    \/ train_model
    \/ eval_model
    \/ infer_model
    \/ TrainExit
    \/ EvalExit
    \/ PredictExit

Spec == Init /\ [][Next]_vars

-----------------------------------------------------------------------------
(* Properties *)

Constructed == pc # "new"

\* a facade call has come back to its caller
Returned(v) == pc = "idle" /\ verb = v

\* the value utils.compute_batch_size returned, if it was called
SizingResult == IF sizing_calls = << >> THEN 0 ELSE sizing_calls[1].result

\* C1: after predict has ended, by return or by raise, the two global decode
\* parameters beam_size and temperature are what they were (value or unbound)
\* before the call.
C1_PredictRestoresDecodeParams ==
    Returned("predict") =>
        /\ gin.beam_size = gin_before.beam_size
        /\ gin.temperature = gin_before.temperature

\* C2: once constructed, whatever calls are made and however they end, the
\* attributes of the facade are those the constructor set, get_estimator has
\* been called once, and every external routine receives that estimator.
C2_ConfigurationFixed ==
    Constructed =>
        /\ self = ConstructedSelf(args, SizingResult)
        /\ Len(estimator_calls) = 1
        /\ Len(sizing_calls) <= 1
        /\ self.estimator = Estimator(1)
        /\ \A i \in 1..Len(ext_calls) : ext_calls[i].estimator = Estimator(1)

C2_Witness ==
    /\ Returned("train")
    /\ outcome = ExternalError
    /\ args.batch_size.tag = "pair"

\* C3: an integer sequence_length n, n = 0 included, is stored and given to
\* get_estimator as {"inputs": n, "targets": n}.
C3_IntegerExpanded ==
    (Constructed /\ IsInt(args.sequence_length)) =>
        LET n == args.sequence_length.n
            m == PyDict({<<"inputs", n>>, <<"targets", n>>})
        IN  /\ self.sequence_length = m
            /\ estimator_calls[1].sequence_length = m

\* C4: a mapping sequence_length, the empty mapping included, is stored and
\* given to compute_batch_size and get_estimator unchanged.
C4_MappingUnchanged ==
    (Constructed /\ args.sequence_length.tag = "dict") =>
        /\ self.sequence_length = args.sequence_length
        /\ estimator_calls[1].sequence_length = args.sequence_length
        /\ \A i \in 1..Len(sizing_calls) :
              sizing_calls[i].args.sequence_length = args.sequence_length

\* C5: an integer batch_size b is the resolved batch size, compute_batch_size
\* is not called, and b is what get_estimator and every later delegation get.
C5_IntegerBatchSize ==
    (Constructed /\ args.batch_size.tag = "int") =>
        /\ self.batch_size = args.batch_size.n
        /\ sizing_calls = << >>
        /\ estimator_calls[1].batch_size = args.batch_size.n
        /\ \A i \in 1..Len(ext_calls) : ext_calls[i].batch_size = args.batch_size.n

C5_Witness ==
    /\ Returned("eval")
    /\ args.batch_size = BatchInt(0)
    /\ outcome = NoError

\* C6: a (method, value) batch_size is resolved by exactly one call of
\* compute_batch_size, made with the normalised sequence-length mapping, the
\* mesh shape of tpu_topology and model_parallelism, the layout rules and
\* the pair; the resolved batch size is what that call returned.
C6_PairBatchSize ==
    (Constructed /\ args.batch_size.tag = "pair") =>
        LET sl == args.sequence_length
            normalised ==
                CASE sl.tag = "int" /\ sl.n # 0 ->
                        PyDict({<<"inputs", sl.n>>, <<"targets", sl.n>>})
                  [] sl.tag = "dict" /\ sl.d # {} -> sl
                  [] OTHER ->
                        PyDict({<<"inputs", DefaultSeqLen>>, <<"targets", DefaultSeqLen>>})
        IN  /\ Len(sizing_calls) = 1
            /\ sizing_calls[1].args.sequence_length = normalised
            /\ sizing_calls[1].args.mesh_shape =
                  tpu_mesh_shape(args.tpu_topology, args.model_parallelism)
            /\ sizing_calls[1].args.layout_rules = args.layout_rules
            /\ sizing_calls[1].args.batch_size = args.batch_size
            /\ self.batch_size = sizing_calls[1].result
            /\ estimator_calls[1].batch_size = sizing_calls[1].result

C6_Witness ==
    /\ Constructed
    /\ args.batch_size = BatchPair("tokens_per_batch", 1)
    /\ IsInt(args.sequence_length)
    /\ args.sequence_length.n = 1
    /\ self.batch_size = 2

\* C7: without a vocabulary one default SentencePieceVocabulary is made, its
\* size is both vocabulary sizes given to get_estimator, and it is the object
\* every external routine receives; with a vocabulary, that one is used and
\* no default is made.
C7_DefaultVocabulary ==
    Constructed =>
        /\ args.vocabulary.tag = "none" =>
              /\ spv_calls = 1
              /\ self.vocabulary = DefaultSPV
              /\ estimator_calls[1].input_vocab_size = VocabSize("sentencepiece_default")
              /\ estimator_calls[1].output_vocab_size = VocabSize("sentencepiece_default")
              /\ \A i \in 1..Len(ext_calls) : ext_calls[i].vocabulary = DefaultSPV
        /\ args.vocabulary.tag # "none" =>
              /\ spv_calls = 0
              /\ self.vocabulary = args.vocabulary
              /\ estimator_calls[1].input_vocab_size = VocabSize(args.vocabulary.inputs)
              /\ estimator_calls[1].output_vocab_size = VocabSize(args.vocabulary.targets)
              /\ \A i \in 1..Len(ext_calls) : ext_calls[i].vocabulary = args.vocabulary

C7_Witness ==
    /\ pc = "infer_model"
    /\ args.vocabulary.tag = "none"
    /\ spv_calls = 1

ExpectedCall ==
    CASE verb = "train" -> TrainModelArgs(ConstructedSelf(args, SizingResult),
                                          call.name, call.steps)
      [] verb = "eval" -> EvalModelArgs(ConstructedSelf(args, SizingResult),
                                        call.name, call.checkpoint_step)
      [] verb = "predict" -> InferModelArgs(ConstructedSelf(args, SizingResult),
                                            call.checkpoint_step)

\* C10: each call of train, eval or predict invokes its external routine
\* exactly once, with the arguments built from the constructor's values; what
\* the routine raised is what the caller gets; the stored configuration and
\* the estimator are untouched by a failure.
C10_OnceNoRetry ==
    (Constructed /\ verb # "none") =>
        /\ Len(ext_calls) = 1
        /\ ext_calls[1] = ExpectedCall
        /\ pc = "idle" => outcome = raised
        /\ self = ConstructedSelf(args, SizingResult)

C10_Witness ==
    /\ Returned("predict")
    /\ outcome = ExternalError
    /\ raised = ExternalError

====
